---- MODULE Spec2Model ----
(***************************************************************************)
(* FireboltDriver (packages/cubejs-firebolt-driver/src/FireboltDriver.ts). *)
(*                                                                         *)
(* The driver keeps one field, `connection`, holding the promise of the    *)
(* connection (pending, resolved or rejected) or null.  Top-level calls    *)
(* (query, stream, testConnection, release) are async functions: each runs *)
(* atomically from one await to the next, and the awaited engine-client    *)
(* calls (connect, getByName, startAndWait, execute, fetchResult,          *)
(* streamResult, testConnection, destroy) return or fail at arbitrary      *)
(* later moments.  A promise created by initConnection() is identified by  *)
(* the ordinal of its connect call; the Connection instance that connect   *)
(* returns carries the same ordinal (connect builds a new instance on      *)
(* every call).                                                            *)
(***************************************************************************)
EXTENDS Integers, Sequences, FiniteSets, Bags, TLC

\* ------------------------------------------------------------------ bounds
MaxCalls == 2     \* top-level calls in flight at the same time
MaxConn == 3      \* firebolt.connect() calls in one behaviour

ConnIds == 1..MaxConn

\* ----------------------------------------------------------------- statuses
Unauthorized == 401
NotFound == 404
\* 500 stands for every error the catch blocks do not interpret (any other
\* status, or no status field at all: both tests `=== 401`, `=== 404` fail)
Statuses == {Unauthorized, NotFound, 500}
NoStatus == -1

VARIABLES
  engineName,     \* config.connection.engineName is set (fixed at construction)
  connection,     \* this.connection: 0 = null, i = promise of the i-th initConnection()
  prom,           \* state of every initConnection() promise and of its Connection
  connectCalls,   \* number of firebolt.connect() calls issued so far
  calls,          \* bag of the top-level calls in flight (position, locals, history)
  done,           \* the call that ended in the last step (kind "none": no call ended)
  hMeta, hRow, hOut,  \* hydrateRow: column metadata, raw row, hydrated row
  dName, dOut,        \* dropTable: the tableName argument, the statement submitted
  tIn, tOut           \* toGenericType: the columnType argument, the value returned

drv == <<engineName, connection, prom, connectCalls, calls, done>>
hyd == <<hMeta, hRow, hOut>>
drp == <<dName, dOut>>
typ == <<tIn, tOut>>
\* the arguments and results of the synchronous helpers
fns == <<hMeta, hRow, hOut, dName, dOut, tIn, tOut>>
vars == <<engineName, connection, prom, connectCalls, calls, done,
          hMeta, hRow, hOut, dName, dOut, tIn, tOut>>

\* initConnection() still running: connect, getByName or startAndWait in flight
Pending == {"connect", "lookup", "start"}
\* the promise resolved with a Connection: live, destroy() called, release() done
Resolved == {"ready", "destroyed", "released"}
\* (faulty variant: an await on a rejected creation never resumes)
SettledOnResolve == Resolved
Settled == Resolved \cup {"failed"}

\* a call before its first step; also the value of `done` when no call ended
IdleCall ==
  [kind |-> "none", pc |-> "idle", retry |-> TRUE, p |-> 0,
   attempts |-> 0, inval |-> 0, recStarts |-> 0, recState |-> "none",
   att2Guard |-> "none", new2 |-> FALSE,
   firstErr |-> NoStatus, secondErr |-> NoStatus,
   res |-> "none", err |-> NoStatus, relDestroys |-> 0]

InFlight == BagToSet(calls)
Replace(r, r2) == (calls (-) SetToBag({r})) (+) SetToBag({r2})
Remove(r) == calls (-) SetToBag({r})
Add(r) == calls (+) SetToBag({r})

\* A settled promise that neither this.connection nor a suspended call refers
\* to is unreachable garbage: nothing can read it any more and its state is
\* forgotten.  (A pending promise is always awaited by the call that created it.)
Dropped == [st |-> "dropped", err |-> NoStatus]
Referenced(i, cache, bag) == i = cache \/ \E r \in BagToSet(bag) : r.p = i
Collect(pr, cache, bag) ==
  [i \in ConnIds |-> IF pr[i].st \in Settled /\ ~Referenced(i, cache, bag)
                     THEN Dropped ELSE pr[i]]
Keep == prom' = Collect(prom, connection', calls')

\* The call that ended in the last step is handed to its caller (the step
\* `returned`) before the driver takes another step.
Running == done = IdleCall

\* ------------------------------------------------ the code's decision points
\* (faulty variant: the catch block rethrows without clearing the cache)
initConnectionCatchKeeps(cache, own) == cache

\* initConnection, catch block: this.connection = null
initConnectionCatch(cache, own) == 0

\* (faulty variant: only a finished creation is reused, a pending one is not)
getConnectionCreatesWhilePending(cache) == cache = 0 \/ prom[cache].st \in Pending

\* getConnection: `if (this.connection)` is false, so initConnection() is called
getConnectionCreates(cache) == cache = 0

\* (faulty variant: a 404 is rethrown instead of starting the engine)
queryResponseCatchNo404(status, retry) ==
  IF status = Unauthorized /\ retry THEN "invalidate" ELSE "throw"

\* (faulty variant: a 401 starts the engine as well)
queryResponseCatchEngineOn401(status, retry) ==
  IF (status = Unauthorized \/ status = NotFound) /\ retry THEN "engine" ELSE "throw"

\* queryResponse, catch block: which branch the error takes
queryResponseCatch(status, retry) ==
  IF status = Unauthorized /\ retry THEN "invalidate"
  ELSE IF status = NotFound /\ retry THEN "engine"
  ELSE "throw"

\* (faulty variant: every failure of the first attempt is retried)
streamResponseCatchAnyStatus(status, retry) ==
  IF retry THEN "invalidate" ELSE "throw"

\* (faulty variant: the streaming path does not retry after a 401)
streamResponseCatchNo401(status, retry) ==
  IF status = NotFound /\ retry THEN "engine" ELSE "throw"

\* streamResponse, catch block
streamResponseCatch(status, retry) ==
  IF status = Unauthorized /\ retry THEN "invalidate"
  ELSE IF status = NotFound /\ retry THEN "engine"
  ELSE "throw"

\* (faulty variant: testConnection retries like queryResponse)
testConnectionCatchRetries(status, retry) == queryResponseCatch(status, retry)

\* testConnection, catch block: console.log(error); throw error
testConnectionCatch(status, retry) == "throw"

\* (faulty variant: the recursive call passes `retry` on)
retryArgumentPassedOn(retry) == retry

\* the `retry` argument of the recursive queryResponse/streamResponse call
retryArgument(retry) == FALSE

\* (faulty variant: the 401 branch retries without clearing the cache)
invalidateKeeps(cache) == cache

\* the 401 branch: this.connection = null
invalidate(cache) == 0

\* (faulty variant: release leaves the destroyed connection in the cache)
releaseKeeps(cache) == cache

\* release: this.connection = null after destroy()
releaseClears(cache) == 0

\* (faulty variant: the engine is looked up and started without a name)
ensureEngineRunningAlways(name) == TRUE

\* ensureEngineRunning: `if (this.config.connection.engineName)`
ensureEngineRunningCalls(name) == name

catchBranch(kind, status, retry) ==
  IF kind = "query" THEN queryResponseCatch(status, retry)
  ELSE IF kind = "stream" THEN streamResponseCatch(status, retry)
  ELSE testConnectionCatch(status, retry)

\* ------------------------------------------------------------ initial state
DriverInit ==
  /\ engineName \in BOOLEAN
  /\ connection = 0
  /\ prom = [i \in ConnIds |-> [st |-> "unused", err |-> NoStatus]]
  /\ connectCalls = 0
  /\ calls = EmptyBag
  /\ done = IdleCall

\* the call r ends: resolves (how = "ok") or rejects with status e thrown by `how`
Finished(r, how, e) == [r EXCEPT !.pc = "idle", !.p = 0, !.res = how, !.err = e]

\* ------------------------------------------------------------- getConnection
\* `await this.getConnection()` run up to its await, `cache` being the value of
\* this.connection it reads; r is the call before the attempt, old its record
\* in the bag (IdleCall: the call is new).
getConnection(old, r, cache) ==
  LET creates == getConnectionCreates(cache)
      np == IF creates THEN connectCalls + 1 ELSE cache
      k == r.attempts + 1
      nr == [r EXCEPT !.attempts = k, !.p = np, !.pc = "awaitConn",
                      !.new2 = IF r.inval > 0 THEN creates ELSE @,
                      !.att2Guard = IF k = 2 THEN r.recState ELSE @]
  IN /\ creates => connectCalls < MaxConn
     /\ connectCalls' = IF creates THEN connectCalls + 1 ELSE connectCalls
     /\ connection' = np
     /\ calls' = IF old = IdleCall THEN Add(nr) ELSE Replace(old, nr)
     /\ done' = IdleCall
     /\ prom' = Collect(IF creates
                        THEN [prom EXCEPT ![np] = [st |-> "connect", err |-> NoStatus]]
                        ELSE prom, connection', calls')

\* -------------------------------------------------------- top-level calls
query ==
  /\ Running
  /\ BagCardinality(calls) < MaxCalls
  /\ getConnection(IdleCall, [IdleCall EXCEPT !.kind = "query"], connection)
  /\ UNCHANGED engineName
  /\ UNCHANGED fns

stream ==
  /\ Running
  /\ BagCardinality(calls) < MaxCalls
  /\ getConnection(IdleCall, [IdleCall EXCEPT !.kind = "stream"], connection)
  /\ UNCHANGED engineName
  /\ UNCHANGED fns

testConnection ==
  /\ Running
  /\ BagCardinality(calls) < MaxCalls
  /\ getConnection(IdleCall, [IdleCall EXCEPT !.kind = "test"], connection)
  /\ UNCHANGED engineName
  /\ UNCHANGED fns

release ==
  /\ Running
  /\ LET r == [IdleCall EXCEPT !.kind = "release"]
     IN IF connection # 0
        THEN /\ BagCardinality(calls) < MaxCalls
             /\ calls' = Add([r EXCEPT !.pc = "relAwait", !.p = connection])
             /\ done' = IdleCall
        ELSE /\ calls' = calls
             /\ done' = Finished(r, "ok", NoStatus)
  /\ UNCHANGED <<engineName, connection, connectCalls>>
  /\ Keep
  /\ UNCHANGED fns

\* ------------------------------------------------------------ initConnection
initConnectionFails(i, e) ==
  /\ connection' = initConnectionCatch(connection, i)
  /\ prom' = Collect([prom EXCEPT ![i] = [st |-> "failed", err |-> e]],
                     connection', calls)

\* firebolt.connect() of creation i returns or fails
connectReturns(i) ==
  /\ Running
  /\ prom[i].st = "connect"
  /\ \/ /\ UNCHANGED connection
        /\ prom' = Collect([prom EXCEPT ![i].st = IF ensureEngineRunningCalls(engineName)
                                               THEN "lookup" ELSE "ready"], connection, calls)
     \/ \E s \in Statuses : initConnectionFails(i, s)
  /\ done' = IdleCall
  /\ UNCHANGED <<engineName, connectCalls, calls>>
  /\ UNCHANGED fns

\* ensureEngineRunning() inside initConnection: engine.getByName returns or fails
initGetByNameReturns(i) ==
  /\ Running
  /\ prom[i].st = "lookup"
  /\ \/ /\ UNCHANGED connection
        /\ prom' = Collect([prom EXCEPT ![i].st = "start"], connection, calls)
     \/ \E s \in Statuses : initConnectionFails(i, s)
  /\ done' = IdleCall
  /\ UNCHANGED <<engineName, connectCalls, calls>>
  /\ UNCHANGED fns

\* ensureEngineRunning() inside initConnection: engine.startAndWait returns or fails
initStartAndWaitReturns(i) ==
  /\ Running
  /\ prom[i].st = "start"
  /\ \/ /\ UNCHANGED connection
        /\ prom' = Collect([prom EXCEPT ![i].st = "ready"], connection, calls)
     \/ \E s \in Statuses : initConnectionFails(i, s)
  /\ done' = IdleCall
  /\ UNCHANGED <<engineName, connectCalls, calls>>
  /\ UNCHANGED fns

\* ------------------------------------------ queryResponse / streamResponse
\* The attempt of call r fails with status e: the catch block.
attemptFails(r, e) ==
  LET r0 == IF r.attempts = 1
            THEN [r EXCEPT !.firstErr = e]
            ELSE [r EXCEPT !.secondErr = e]
      branch == catchBranch(r0.kind, e, r0.retry)
  IN CASE branch = "invalidate" ->
            getConnection(r, [r0 EXCEPT !.inval = @ + 1,
                                        !.retry = retryArgument(r0.retry)],
                          invalidate(connection))
       [] branch = "engine" ->
            IF ensureEngineRunningCalls(engineName)
            THEN /\ calls' = Replace(r, [r0 EXCEPT !.recStarts = @ + 1,
                                                   !.recState = "running",
                                                   !.pc = "recLookup", !.p = 0])
                 /\ done' = IdleCall
                 /\ UNCHANGED <<connection, connectCalls>>
                 /\ Keep
            ELSE getConnection(r, [r0 EXCEPT !.recStarts = @ + 1, !.recState = "done",
                                             !.p = 0,
                                             !.retry = retryArgument(r0.retry)],
                               connection)
       [] OTHER ->
            /\ calls' = Remove(r)
            /\ done' = Finished(r0, "rejAttempt", e)
            /\ UNCHANGED <<connection, connectCalls>>
            /\ Keep

\* the call r resolves
resolves(r) ==
  /\ calls' = Remove(r)
  /\ done' = Finished(r, "ok", NoStatus)
  /\ UNCHANGED <<connection, connectCalls>>
  /\ Keep

\* `await this.getConnection()` resumes: the awaited promise has settled.  With
\* a Connection the call submits connection.execute() (connection.testConnection()
\* in testConnection); the local `connection` is not read after that.
connectionSettled(r) ==
  /\ Running
  /\ r.pc = "awaitConn"
  /\ prom[r.p].st \in Settled
  /\ IF prom[r.p].st \in Resolved
     THEN /\ calls' = Replace(r, [r EXCEPT !.p = 0,
                                           !.pc = IF r.kind = "test" THEN "validate"
                                                  ELSE "execute"])
          /\ done' = IdleCall
          /\ UNCHANGED <<connection, connectCalls>>
          /\ Keep
     ELSE attemptFails(r, prom[r.p].err)
  /\ UNCHANGED engineName
  /\ UNCHANGED fns

\* connection.execute() returns the statement or fails
executeReturns(r) ==
  /\ Running
  /\ r.pc = "execute"
  /\ \/ /\ calls' = Replace(r, [r EXCEPT !.pc = "fetch"])
        /\ done' = IdleCall
        /\ UNCHANGED <<connection, connectCalls>>
        /\ Keep
     \/ \E s \in Statuses : attemptFails(r, s)
  /\ UNCHANGED engineName
  /\ UNCHANGED fns

\* statement.fetchResult() (query) or statement.streamResult() (stream)
\* returns or fails
fetchReturns(r) ==
  /\ Running
  /\ r.pc = "fetch"
  /\ \/ IF r.kind = "stream"
        THEN /\ calls' = Replace(r, [r EXCEPT !.pc = "meta"])
             /\ done' = IdleCall
             /\ UNCHANGED <<connection, connectCalls>>
             /\ Keep
        ELSE resolves(r)
     \/ \E s \in Statuses : attemptFails(r, s)
  /\ UNCHANGED engineName
  /\ UNCHANGED fns

\* streamResponse: `await metaPromise` resolves or rejects
metaReturns(r) ==
  /\ Running
  /\ r.pc = "meta"
  /\ \/ resolves(r)
     \/ \E s \in Statuses : attemptFails(r, s)
  /\ UNCHANGED engineName
  /\ UNCHANGED fns

\* (faulty variant: the guard's failure is handled like a failure of the attempt)
guardFailsRetried(r, s) == attemptFails(r, s)

\* the call r rejects with the error ensureEngineRunning() threw in the catch block
guardFails(r, s) ==
  /\ calls' = Remove(r)
  /\ done' = Finished([r EXCEPT !.recState = "failed"], "rejGuard", s)
  /\ UNCHANGED <<connection, connectCalls>>
  /\ Keep

\* ensureEngineRunning() in the catch block: engine.getByName returns or fails
ensureEngineRunningLookup(r) ==
  /\ Running
  /\ r.pc = "recLookup"
  /\ \/ /\ calls' = Replace(r, [r EXCEPT !.pc = "recStart"])
        /\ done' = IdleCall
        /\ UNCHANGED <<connection, connectCalls>>
        /\ Keep
     \/ \E s \in Statuses : guardFails(r, s)
  /\ UNCHANGED engineName
  /\ UNCHANGED fns

\* ensureEngineRunning() in the catch block: engine.startAndWait returns or
\* fails; on return the recursive call starts the second attempt
ensureEngineRunningStart(r) ==
  /\ Running
  /\ r.pc = "recStart"
  /\ \/ getConnection(r, [r EXCEPT !.recState = "done",
                                   !.retry = retryArgument(r.retry)], connection)
     \/ \E s \in Statuses : guardFails(r, s)
  /\ UNCHANGED engineName
  /\ UNCHANGED fns

\* ------------------------------------------------------------ testConnection
\* connection.testConnection() returns or fails
validateReturns(r) ==
  /\ Running
  /\ r.pc = "validate"
  /\ \/ resolves(r)
     \/ \E s \in Statuses : attemptFails(r, s)
  /\ UNCHANGED engineName
  /\ UNCHANGED fns

\* ------------------------------------------------------------------- release
\* `await this.connection` in release() resumes; destroy() is called
releaseAwaited(r) ==
  /\ Running
  /\ r.pc = "relAwait"
  /\ prom[r.p].st \in Settled
  /\ IF prom[r.p].st \in Resolved
     THEN /\ calls' = Replace(r, [r EXCEPT !.pc = "destroy", !.relDestroys = @ + 1])
          /\ prom' = [prom EXCEPT ![r.p].st = IF @ = "ready" THEN "destroyed" ELSE @]
          /\ done' = IdleCall
          /\ UNCHANGED connection
     ELSE /\ calls' = Remove(r)
          /\ done' = Finished(r, "rejAwait", prom[r.p].err)
          /\ UNCHANGED connection
          /\ Keep
  /\ UNCHANGED <<engineName, connectCalls>>
  /\ UNCHANGED fns

\* connection.destroy() returns or fails
destroyReturns(r) ==
  /\ Running
  /\ r.pc = "destroy"
  /\ \/ /\ connection' = releaseClears(connection)
        /\ calls' = Remove(r)
        /\ done' = Finished(r, "ok", NoStatus)
        /\ prom' = Collect([prom EXCEPT ![r.p].st = "released"], connection', calls')
     \/ /\ \E s \in Statuses : done' = Finished(r, "rejDestroy", s)
        /\ calls' = Remove(r)
        /\ UNCHANGED connection
        /\ Keep
  /\ UNCHANGED <<engineName, connectCalls>>
  /\ UNCHANGED fns

\* ---------------------------------------------------------------- hydrateRow
\* JavaScript values of a result row: null, a number, a string (a sequence of
\* characters).  Numbers are integers here; strings are kept as sequences so
\* that converting a number is a computation on its digits.
NumCols == 2
ColNames == <<"a", "b", "c", "d">>
Cols == {ColNames[i] : i \in 1..NumCols}
Types == {"long", "double", "text"}

Null == [t |-> "null", n |-> 0, s |-> <<>>]
Num(n) == [t |-> "number", n |-> n, s |-> <<>>]
Str(s) == [t |-> "string", n |-> 0, s |-> s]
Values == {Null, Num(0), Num(7), Num(-12), Num(1234567890),
           Str(<<"x">>), Str(<<"4", "2">>)}

\* firebolt-sdk isNumberType(type), for the types of this model
isNumberType(type) == type \in {"long", "double"}

DigitChars == <<"0", "1", "2", "3", "4", "5", "6", "7", "8", "9">>

RECURSIVE NatToString(_)
NatToString(n) ==
  IF n < 10 THEN <<DigitChars[n + 1]>>
  ELSE NatToString(n \div 10) \o <<DigitChars[(n % 10) + 1]>>

\* the template literal `${value}`
TemplateString(value) ==
  CASE value.t = "number" ->
         Str(IF value.n < 0 THEN <<"-">> \o NatToString(-value.n)
             ELSE NatToString(value.n))
    [] value.t = "string" -> value
    [] OTHER -> Str(<<"n", "u", "l", "l">>)

\* (faulty variant: the null check is missing)
getHydratedValueNoNullCheck(value, meta) ==
  IF isNumberType(meta.type) THEN TemplateString(value) ELSE value

getHydratedValue(value, meta) ==
  IF isNumberType(meta.type) /\ value # Null
  THEN TemplateString(value)
  ELSE value

\* the for loop of hydrateRow: hydratedRow[key] = ... for index, index + 1, ...
RECURSIVE hydrateFrom(_, _, _, _)
hydrateFrom(row, meta, index, hydratedRow) ==
  IF index > Len(meta) THEN hydratedRow
  ELSE LET column == meta[index]
           key == column.name
       IN hydrateFrom(row, meta, index + 1,
                      (key :> getHydratedValue(row[key], column)) @@ hydratedRow)

hydrateRow(row, meta) == hydrateFrom(row, meta, 1, <<>>)

\* column metadata of a result set: distinct column names, each with a type
Metas ==
  {m \in UNION {[1..k -> [name : Cols, type : Types]] : k \in 0..NumCols} :
     \A i, j \in DOMAIN m : i # j => m[i].name # m[j].name}
\* a row of that result set has a value for every column
Rows == [Cols -> Values]

\* a driver that has just been constructed, about to hydrate some row
HydrateInit ==
  /\ engineName = FALSE
  /\ connection = 0
  /\ prom = [i \in ConnIds |-> [st |-> "unused", err |-> NoStatus]]
  /\ connectCalls = 0
  /\ calls = EmptyBag
  /\ done = IdleCall
  /\ hMeta \in Metas
  /\ hRow \in Rows
  /\ hOut = [called |-> FALSE, row |-> <<>>]
  /\ dName = <<>>
  /\ dOut = [called |-> FALSE, sql |-> <<>>]
  /\ tIn = <<>>
  /\ tOut = [called |-> FALSE, type |-> <<>>]

\* the engine client calls the hydrateRow callback on a row
hydrate ==
  /\ ~hOut.called
  /\ hOut' = [called |-> TRUE, row |-> hydrateRow(hRow, hMeta)]
  /\ UNCHANGED <<hMeta, hRow>>
  /\ UNCHANGED drv
  /\ UNCHANGED drp
  /\ UNCHANGED typ

\* ----------------------------------------------------------------- dropTable
\* Table names are strings, kept as sequences of characters.
MaxNameLen == 5
NameChars == {"s", "t", "."}
Names == UNION {[1..k -> NameChars] : k \in 1..MaxNameLen}

\* index of the first "." of chars, 0 when there is none
FirstDot(chars) ==
  IF \E i \in DOMAIN chars : chars[i] = "."
  THEN CHOOSE i \in DOMAIN chars :
         chars[i] = "." /\ \A j \in 1..(i - 1) : chars[j] # "."
  ELSE 0

\* tableName.match(/\./)
matchesDot(chars) == FirstDot(chars) # 0

\* tableName.split('.'): the pieces between the dots, empty pieces included
RECURSIVE split(_)
split(chars) ==
  LET i == FirstDot(chars)
  IN IF i = 0 THEN <<chars>>
     ELSE <<SubSeq(chars, 1, i - 1)>> \o split(SubSeq(chars, i + 1, Len(chars)))

\* `const [_, name] = parts`: the element at index 1 (undefined when absent,
\* which the template literal prints as "undefined")
secondOf(parts) ==
  IF Len(parts) >= 2 THEN parts[2]
  ELSE <<"u", "n", "d", "e", "f", "i", "n", "e", "d">>

\* the statement text `DROP TABLE ${tableName}`
dropStatement(tableName) ==
  <<"D", "R", "O", "P", " ", "T", "A", "B", "L", "E", " ">> \o tableName

\* the table name dropTable puts into the statement
dropTableName(tableName) ==
  IF matchesDot(tableName) THEN secondOf(split(tableName)) ELSE tableName

\* a driver that has just been constructed, about to drop some table
DropInit ==
  /\ engineName \in BOOLEAN
  /\ connection = 0
  /\ prom = [i \in ConnIds |-> [st |-> "unused", err |-> NoStatus]]
  /\ connectCalls = 0
  /\ calls = EmptyBag
  /\ done = IdleCall
  /\ hMeta = <<>>
  /\ hRow = [c \in Cols |-> Null]
  /\ hOut = [called |-> FALSE, row |-> <<>>]
  /\ dName \in Names
  /\ dOut = [called |-> FALSE, sql |-> <<>>]
  /\ tIn = <<>>
  /\ tOut = [called |-> FALSE, type |-> <<>>]

\* dropTable(dName): builds the statement and returns this.query(statement, [])
dropTable ==
  /\ ~dOut.called
  /\ dOut' = [called |-> TRUE, sql |-> dropStatement(dropTableName(dName))]
  /\ getConnection(IdleCall, [IdleCall EXCEPT !.kind = "query"], connection)
  /\ UNCHANGED <<engineName, dName>>
  /\ UNCHANGED hyd
  /\ UNCHANGED typ

\* ------------------------------------------------------------- toGenericType
\* Column type names are strings made of these pieces, kept as sequences of
\* pieces: "nullable(long)" is <<"nullable", "(", "long", ")">>.
MaxTypeLen == 4
TypeTokens == {"long", "int", "toString", "nullable", "array", "(", ")"}
TypeNames == UNION {[1..k -> TypeTokens] : k \in 1..MaxTypeLen}

\* const FireboltTypeToGeneric = { long: 'bigint' }
FireboltTypeToGeneric == (<<"long">> :> <<"bigint">>)

\* columnType.match(COMPLEX_TYPE), COMPLEX_TYPE = /(nullable|array)\((.+)\)/:
\* the leftmost "nullable(" or "array(" that is followed by at least one
\* piece and a ")", the inner group running up to the last ")"
MatchStarts(t) ==
  {i \in DOMAIN t : /\ t[i] \in {"nullable", "array"}
                    /\ i + 1 \in DOMAIN t /\ t[i + 1] = "("
                    /\ \E j \in DOMAIN t : j >= i + 3 /\ t[j] = ")"}
matchComplexType(t) ==
  IF MatchStarts(t) = {} THEN [matched |-> FALSE, outerType |-> <<>>, innerType |-> <<>>]
  ELSE LET i == CHOOSE a \in MatchStarts(t) : \A b \in MatchStarts(t) : a <= b
           j == CHOOSE a \in DOMAIN t :
                  t[a] = ")" /\ \A b \in DOMAIN t : t[b] = ")" => b <= a
       IN [matched |-> TRUE, outerType |-> <<t[i]>>,
           innerType |-> SubSeq(t, i + 2, j - 1)]

\* BaseDriver.toGenericType: the generic mapping shared with the other drivers
superToGenericType(columnType) == [by |-> "base", of |-> columnType]

\* the table is an object literal: the names it inherits from
\* Object.prototype (toString stands for them) are `in` it as well
InheritedKeys == {<<"toString">>}
\* key in FireboltTypeToGeneric
inTable(key) == key \in DOMAIN FireboltTypeToGeneric \cup InheritedKeys

\* FireboltTypeToGeneric[key]
tableValue(key) ==
  IF key \in DOMAIN FireboltTypeToGeneric
  THEN [by |-> "table", of |-> FireboltTypeToGeneric[key]]
  ELSE IF key \in InheritedKeys
       THEN [by |-> "inherited", of |-> key]
       ELSE [by |-> "undefined", of |-> <<>>]

\* (faulty variant: the inner type is looked up in the table)
complexTypeHitsInner(columnType, innerType) == inTable(innerType)

\* the test inside `if (match)`: `columnType in FireboltTypeToGeneric`
complexTypeHits(columnType, innerType) == inTable(columnType)

toGenericType(columnType) ==
  IF inTable(columnType)
  THEN tableValue(columnType)
  ELSE LET match == matchComplexType(columnType)
       IN IF match.matched /\ complexTypeHits(columnType, match.innerType)
          THEN tableValue(match.innerType)
          ELSE superToGenericType(columnType)

\* a driver that has just been constructed, about to map some column type
TypeInit ==
  /\ engineName = FALSE
  /\ connection = 0
  /\ prom = [i \in ConnIds |-> [st |-> "unused", err |-> NoStatus]]
  /\ connectCalls = 0
  /\ calls = EmptyBag
  /\ done = IdleCall
  /\ hMeta = <<>>
  /\ hRow = [c \in Cols |-> Null]
  /\ hOut = [called |-> FALSE, row |-> <<>>]
  /\ dName = <<>>
  /\ dOut = [called |-> FALSE, sql |-> <<>>]
  /\ tIn \in TypeNames
  /\ tOut = [called |-> FALSE, type |-> <<>>]

\* toGenericType(tIn) is called
mapType ==
  /\ ~tOut.called
  /\ tOut' = [called |-> TRUE, type |-> toGenericType(tIn)]
  /\ UNCHANGED tIn
  /\ UNCHANGED drv
  /\ UNCHANGED hyd
  /\ UNCHANGED drp

\* the caller of the call that just ended receives its outcome
returned ==
  /\ done # IdleCall
  /\ done' = IdleCall
  /\ UNCHANGED <<engineName, connection, prom, connectCalls, calls>>
  /\ UNCHANGED fns

\* ------------------------------------------------------------ specification
HydIdle ==
  /\ hMeta = <<>>
  /\ hRow = [c \in Cols |-> Null]
  /\ hOut = [called |-> FALSE, row |-> <<>>]

DropIdle ==
  /\ dName = <<>>
  /\ dOut = [called |-> FALSE, sql |-> <<>>]

TypeIdle ==
  /\ tIn = <<>>
  /\ tOut = [called |-> FALSE, type |-> <<>>]

Init == DriverInit /\ HydIdle /\ DropIdle /\ TypeIdle

Next ==
  \/ query
  \/ stream
  \/ testConnection
  \/ release
  \/ \E i \in ConnIds : connectReturns(i)
  \/ \E i \in ConnIds : initGetByNameReturns(i)
  \/ \E i \in ConnIds : initStartAndWaitReturns(i)
  \/ \E r \in InFlight : connectionSettled(r)
  \/ \E r \in InFlight : executeReturns(r)
  \/ \E r \in InFlight : fetchReturns(r)
  \/ \E r \in InFlight : metaReturns(r)
  \/ \E r \in InFlight : ensureEngineRunningLookup(r)
  \/ \E r \in InFlight : ensureEngineRunningStart(r)
  \/ \E r \in InFlight : validateReturns(r)
  \/ \E r \in InFlight : releaseAwaited(r)
  \/ \E r \in InFlight : destroyReturns(r)
  \/ returned

Spec == Init /\ [][Next]_vars

\* a caller starts a top-level call
Arrival == query \/ stream \/ testConnection \/ release
\* an engine-client call returns or fails, or a settled await resumes
Progress ==
  \/ \E i \in ConnIds : connectReturns(i)
  \/ \E i \in ConnIds : initGetByNameReturns(i)
  \/ \E i \in ConnIds : initStartAndWaitReturns(i)
  \/ \E r \in InFlight : connectionSettled(r)
  \/ \E r \in InFlight : executeReturns(r)
  \/ \E r \in InFlight : fetchReturns(r)
  \/ \E r \in InFlight : metaReturns(r)
  \/ \E r \in InFlight : ensureEngineRunningLookup(r)
  \/ \E r \in InFlight : ensureEngineRunningStart(r)
  \/ \E r \in InFlight : validateReturns(r)
  \/ \E r \in InFlight : releaseAwaited(r)
  \/ \E r \in InFlight : destroyReturns(r)
  \/ returned

\* The driver with engine-client calls that always return or fail and an
\* event loop that always resumes a settled await: as long as such a step is
\* possible, one is taken.  Nothing is assumed about the callers.
SpecLive == Init /\ [][Next]_vars /\ WF_vars(Progress)

\* hydrateRow applied to every row and metadata of the bounded sets
SpecHydrate == HydrateInit /\ [][hydrate]_vars

\* dropTable applied to every table name of the bounded set
SpecDropTable == DropInit /\ [][dropTable]_vars

\* toGenericType applied to every column type of the bounded set
SpecToGenericType == TypeInit /\ [][mapType]_vars

\* ---------------------------------------------------------------- properties
QS == {"query", "stream"}
Interpreted == {Unauthorized, NotFound}
\* the calls in flight together with the call that just ended
Observed == InFlight \cup {done}

\* C1: a query()/stream() call whose first attempt failed with 401 has cleared
\* this.connection once, makes exactly one more attempt, and that attempt
\* acquired a promise created by a connect() issued after the failure (hence
\* another Connection instance than the failed attempt's); the call resolves if
\* the second attempt succeeds and rejects with the second attempt's error if
\* it fails, without a third attempt.
C1_Retry401 ==
  \A r \in Observed :
    (r.kind \in QS /\ r.firstErr = Unauthorized) =>
       /\ r.attempts = 2 /\ r.inval = 1 /\ r.recStarts = 0
       /\ r.new2 /\ ~r.retry
       /\ r \in InFlight => r.pc \in {"awaitConn", "execute", "fetch", "meta"}
                            /\ r.secondErr = NoStatus
       /\ r = done => \/ r.res = "ok" /\ r.secondErr = NoStatus
                      \/ r.res = "rejAttempt" /\ r.secondErr # NoStatus
                         /\ r.err = r.secondErr

C1_Witness ==
  /\ done.kind \in QS
  /\ done.firstErr = Unauthorized
  /\ done.secondErr = Unauthorized
  /\ done.res = "rejAttempt"

\* C2 as stated: after a first 404 the engine guard is called and has
\* completed when the second attempt starts, exactly one further attempt is
\* made, and a second 404 rejects the call with that error.
C2_Original ==
  (done.kind \in QS /\ done.firstErr = NotFound) =>
     /\ done.recStarts = 1
     /\ done.attempts = 2
     /\ done.att2Guard = "done"
     /\ done.secondErr = NotFound => done.res = "rejAttempt" /\ done.err = NotFound

\* C2 (amended): after a first 404 the catch block calls ensureEngineRunning()
\* once; if it completes, exactly one further attempt is made, started after
\* the completion, and its failure (404 included) rejects the call with that
\* error; if ensureEngineRunning() fails, the call rejects with the guard's
\* error and no further attempt is made.  The catch block never calls the
\* guard a second time and there is no third attempt.
C2_Retry404 ==
  \A r \in Observed :
    (r.kind \in QS /\ r.firstErr = NotFound) =>
       /\ r.recStarts = 1 /\ r.inval = 0 /\ r.attempts \in {1, 2}
       /\ r.attempts = 1 =>
            \/ r \in InFlight /\ r.recState = "running"
               /\ r.pc \in {"recLookup", "recStart"}
            \/ r = done /\ r.recState = "failed" /\ r.res = "rejGuard"
       /\ r.attempts = 2 =>
            /\ r.recState = "done" /\ r.att2Guard = "done" /\ ~r.retry
            /\ r \in InFlight => r.pc \in {"awaitConn", "execute", "fetch", "meta"}
                                 /\ r.secondErr = NoStatus
            /\ r = done => \/ r.res = "ok" /\ r.secondErr = NoStatus
                           \/ r.res = "rejAttempt" /\ r.secondErr # NoStatus
                              /\ r.err = r.secondErr

C2_Witness ==
  /\ done.kind \in QS
  /\ done.firstErr = NotFound
  /\ done.secondErr = NotFound
  /\ done.res = "rejAttempt"
  /\ done.recStarts = 1

\* C3: a query()/stream() call makes at most two attempts and at most one
\* recovery action (one invalidation or one engine start by the catch block,
\* never both); a failure of the second attempt ends the call, which rejects
\* with that failure whatever its status.
C3_BoundedRetry ==
  \A r \in Observed :
    r.kind \in QS =>
       /\ r.attempts <= 2
       /\ r.inval + r.recStarts <= 1
       /\ r.secondErr # NoStatus =>
            /\ r = done /\ r \notin InFlight
            /\ r.attempts = 2
            /\ r.res = "rejAttempt" /\ r.err = r.secondErr

C3_Witness ==
  /\ done.kind \in QS
  /\ \/ done.firstErr = Unauthorized /\ done.secondErr = NotFound
     \/ done.firstErr = NotFound /\ done.secondErr = Unauthorized
  /\ done.res = "rejAttempt"

\* C4: while the first creation has not finished, exactly one connect() has
\* been issued, this.connection holds its promise, and every call in flight
\* awaits that very promise, so all of them resume with its one Connection.
C4_SingleConnect ==
  (connectCalls >= 1 /\ prom[1].st \in Pending) =>
     /\ connectCalls = 1
     /\ connection = 1
     /\ \A r \in InFlight : r.p = 1 /\ r.pc \in {"awaitConn", "relAwait"}

\* two callers have acquired while the first creation is running
C4_Witness ==
  /\ connectCalls = 1
  /\ prom[1].st \in Pending
  /\ \E r1, r2 \in InFlight :
       /\ r1.p = 1 /\ r1.pc = "awaitConn"
       /\ r2.p = 1 /\ r2.pc = "awaitConn"
       /\ r1 # r2 \/ CopiesIn(r1, calls) >= 2

\* C5 as stated: at most one connection creation is in flight.
C5_SingleCreation ==
  Cardinality({i \in ConnIds : prom[i].st \in Pending}) <= 1

\* C7: a query()/stream() call whose attempt failed with a status other than
\* 401 and 404 rejects with that error; when it is the first attempt the call
\* has made exactly one attempt, no invalidation and no engine start.
C7_OtherStatus ==
  \A r \in Observed :
    r.kind \in QS =>
       /\ (r.firstErr # NoStatus /\ r.firstErr \notin Interpreted) =>
            /\ r = done /\ r \notin InFlight
            /\ r.attempts = 1 /\ r.inval = 0 /\ r.recStarts = 0
            /\ r.res = "rejAttempt" /\ r.err = r.firstErr
       /\ (r.secondErr # NoStatus /\ r.secondErr \notin Interpreted) =>
            /\ r = done /\ r \notin InFlight
            /\ r.res = "rejAttempt" /\ r.err = r.secondErr

C7_Witness ==
  /\ done.kind \in QS
  /\ done.firstErr \notin Interpreted
  /\ done.firstErr # NoStatus
  /\ done.res = "rejAttempt"
  /\ done.attempts = 1

\* a call r in flight left the bag in this step
Leaves(r) == CopiesIn(r, calls') < CopiesIn(r, calls)

\* C6: a failing connection creation sets this.connection to null; the
\* cache therefore never holds a failed creation (the next acquire finds null
\* and issues a new connect); every call suspended on the failed promise,
\* the one that started the creation included, resumes with the creation's
\* error (it rejects, or its catch block starts the one retry); no call goes
\* on to execute or destroy with a connection from a failed creation.
C6_CreationFailure ==
  /\ [](/\ connection # 0 => prom[connection].st \in Pending \cup Resolved
        /\ \A r \in InFlight : r.pc = "destroy" => prom[r.p].st \in Resolved)
  /\ [][/\ \A i \in ConnIds :
             (prom[i].st \in Pending /\ prom'[i].st \notin Pending \cup Resolved)
                => connection' = 0
        /\ \A r \in InFlight :
             (r.pc \in {"awaitConn", "relAwait"} /\ prom[r.p].st = "failed" /\ Leaves(r))
                => LET e == prom[r.p].err
                   IN \/ /\ r.kind = "release"
                         /\ done'.kind = "release" /\ done'.res = "rejAwait"
                         /\ done'.err = e
                      \/ /\ r.kind # "release"
                         /\ done'.kind = r.kind /\ done'.res = "rejAttempt"
                         /\ done'.err = e
                      \/ /\ r.kind \in QS /\ r.attempts = 1
                         /\ \E r2 \in BagToSet(calls') :
                              /\ r2.kind = r.kind /\ r2.firstErr = e
                              /\ r2.pc \in {"awaitConn", "recLookup"}
                              /\ r2 \notin InFlight \/ CopiesIn(r2, calls') > CopiesIn(r2, calls)
       ]_vars

\* a creation has failed under two suspended calls and the cache is null
C6_Witness ==
  /\ connection = 0
  /\ \E i \in ConnIds :
       /\ prom[i].st = "failed"
       /\ \E r1, r2 \in InFlight :
            /\ r1.p = i /\ r1.pc = "awaitConn"
            /\ r2.p = i /\ r2.pc \in {"awaitConn", "relAwait"}
            /\ r1 # r2 \/ CopiesIn(r1, calls) >= 2

\* C8: release() with a connection present calls destroy() on it once and,
\* when destroy() returns, leaves this.connection null; release() with no
\* connection ends at once, successfully, with no connect and no destroy;
\* a released connection is never in the cache again, so a release() issued
\* after another one finds null or another connection and never destroys the
\* same connection a second time.
C8_ReleaseIdempotent ==
  /\ [](/\ connection # 0 => prom[connection].st # "released"
        /\ \A r \in Observed :
             r.kind = "release" =>
                /\ r.relDestroys <= 1
                /\ r \in InFlight => (r.pc = "destroy" <=> r.relDestroys = 1)
                /\ (r = done /\ r.res = "ok" /\ r.relDestroys = 1) => connection = 0
                /\ (r = done /\ r.relDestroys = 0) => r.res \in {"ok", "rejAwait"})
  /\ [][/\ (done'.kind = "release" /\ done'.res = "ok" /\ done'.relDestroys = 0)
             => /\ connection = 0
                /\ UNCHANGED <<connection, prom, connectCalls, calls>>
        /\ \A r \in BagToSet(calls') :
             (r.kind = "release" /\ r.pc = "relAwait"
                /\ CopiesIn(r, calls') > CopiesIn(r, calls))
             => connection # 0 /\ r.p = connection
       ]_vars

C8_Witness ==
  /\ done.kind = "release"
  /\ done.res = "ok"
  /\ done.relDestroys = 1
  /\ connection = 0

\* C9: testConnection() makes one acquire and one validation; when either
\* fails, whatever the status, the call rejects with that error, and the step
\* that ends the call leaves this.connection as it is, issues no connect and
\* starts no engine; there is no second attempt.
C9_TestNoRetry ==
  /\ [](\A r \in Observed :
          r.kind = "test" =>
             /\ r.attempts = 1 /\ r.inval = 0 /\ r.recStarts = 0
             /\ r.secondErr = NoStatus
             /\ r \in InFlight => r.pc \in {"awaitConn", "validate"}
                                  /\ r.firstErr = NoStatus
             /\ r = done => \/ r.res = "ok" /\ r.firstErr = NoStatus
                            \/ r.res = "rejAttempt" /\ r.firstErr # NoStatus
                               /\ r.err = r.firstErr)
  /\ [][(done = IdleCall /\ done'.kind = "test")
           => UNCHANGED <<connection, connectCalls>>]_vars

C9_Witness ==
  /\ done.kind = "test"
  /\ done.res = "rejAttempt"
  /\ done.err \in Interpreted

\* ParseDecimal reads a decimal numeral: digits, with an optional leading "-"
DigitValue(c) == CHOOSE d \in 0..9 : DigitChars[d + 1] = c
IsDigit(c) == \E d \in 0..9 : DigitChars[d + 1] = c
RECURSIVE ParseDigits(_)
ParseDigits(chars) ==
  IF Len(chars) = 0 THEN 0
  ELSE 10 * ParseDigits(SubSeq(chars, 1, Len(chars) - 1)) + DigitValue(chars[Len(chars)])
IsDecimal(chars) ==
  LET digits == IF Len(chars) > 0 /\ chars[1] = "-" THEN Tail(chars) ELSE chars
  IN /\ Len(digits) > 0
     /\ \A i \in DOMAIN digits : IsDigit(digits[i])
     /\ Len(digits) > 1 => digits[1] # "0"
ParseDecimal(chars) ==
  IF chars[1] = "-" THEN -ParseDigits(Tail(chars)) ELSE ParseDigits(chars)

\* C10: the hydrated row has exactly the columns of meta; a non-null value of
\* a numeric column is a string, the decimal numeral of the number (a value
\* that is already a string stays that string); a null value of a numeric
\* column stays null; a value of another column is unchanged.
C10_HydrateRow ==
  hOut.called =>
    /\ DOMAIN hOut.row = {hMeta[i].name : i \in DOMAIN hMeta}
    /\ \A i \in DOMAIN hMeta :
         LET v == hRow[hMeta[i].name]
             o == hOut.row[hMeta[i].name]
         IN /\ (isNumberType(hMeta[i].type) /\ v.t = "number") =>
                  /\ o.t = "string" /\ IsDecimal(o.s) /\ ParseDecimal(o.s) = v.n
            /\ (isNumberType(hMeta[i].type) /\ v.t = "string") => o = v
            /\ (isNumberType(hMeta[i].type) /\ v = Null) => o = Null
            /\ ~isNumberType(hMeta[i].type) => o = v

\* a row with a negative number in a numeric column, a null in another
C10_Witness ==
  /\ hOut.called
  /\ Len(hMeta) = 2
  /\ \E i, j \in DOMAIN hMeta :
       /\ isNumberType(hMeta[i].type) /\ hRow[hMeta[i].name] = Num(-12)
       /\ hOut.row[hMeta[i].name] = Str(<<"-", "1", "2">>)
       /\ isNumberType(hMeta[j].type) /\ hRow[hMeta[j].name] = Null

\* a qualified table name: non-empty components separated by single dots
WellFormedName(chars) ==
  /\ Len(chars) > 0
  /\ chars[1] # "." /\ chars[Len(chars)] # "."
  /\ \A i \in 1..(Len(chars) - 1) : ~(chars[i] = "." /\ chars[i + 1] = ".")
\* the unqualified name: what follows the last dot (the whole name without one)
AfterLastDot(chars) ==
  LET dots == {i \in DOMAIN chars : chars[i] = "."}
      last == IF dots = {} THEN 0 ELSE CHOOSE i \in dots : \A j \in dots : j <= i
  IN SubSeq(chars, last + 1, Len(chars))

\* C11 as stated: dropTable(name) submits, as a query() call, the statement
\* "DROP TABLE " followed by the last dot-separated component of name (name
\* itself when it has no dot).
C11_DropTable ==
  (dOut.called /\ WellFormedName(dName)) =>
     /\ \E r \in InFlight : r.kind = "query"
     /\ dOut.sql = <<"D", "R", "O", "P", " ", "T", "A", "B", "L", "E", " ">>
                      \o AfterLastDot(dName)

\* C12 as stated: the engine guard runs only on the retry branch, so while a
\* query()/stream() call is in its first attempt the acquire it awaits runs no
\* engine lookup and no engine start, and neither does the call itself.
C12_Original ==
  \A r \in InFlight :
    (r.kind \in QS /\ r.attempts = 1 /\ r.firstErr = NoStatus) =>
       /\ r.pc \notin {"recLookup", "recStart"}
       /\ r.pc = "awaitConn" => prom[r.p].st \notin {"lookup", "start"}

\* C12 (amended): the catch block calls the engine guard only on the 404
\* branch, so a query()/stream() call whose first attempt succeeds has made no
\* guard call of its own; apart from that every connection creation runs the
\* guard once between connect and the moment the connection is handed out: with
\* an engine name configured a creation becomes ready only from start-and-wait,
\* without one it becomes ready from connect and no lookup or start happens.
C12_GuardBranches ==
  /\ [](/\ \A r \in Observed :
             r.kind \in QS =>
                /\ r.recStarts > 0 => r.firstErr = NotFound
                /\ r.pc \in {"recLookup", "recStart"} => r.firstErr = NotFound /\ engineName
                /\ (r = done /\ r.res = "ok" /\ r.attempts = 1) =>
                      r.recStarts = 0 /\ r.inval = 0 /\ r.firstErr = NoStatus
        /\ \A i \in ConnIds : prom[i].st \in {"lookup", "start"} => engineName)
  /\ [][\A i \in ConnIds :
          (prom[i].st \in Pending /\ prom'[i].st = "ready") =>
             prom[i].st = IF engineName THEN "start" ELSE "connect"]_vars

\* the first call on a fresh driver with an engine name has succeeded at once
C12_Witness ==
  /\ engineName
  /\ connectCalls = 1
  /\ done.kind \in QS /\ done.res = "ok" /\ done.attempts = 1

\* C13: ensureEngineRunning(), in the catch block and in initConnection alike,
\* makes no engine-management call when no engine name is configured (it is
\* complete at once); with an engine name it makes one getByName, then one
\* startAndWait, and is complete only when startAndWait has returned; when
\* getByName or startAndWait fails the guard ends with that failure, without
\* another getByName or startAndWait.
C13_EngineGuard ==
  /\ [](~engineName =>
          /\ \A i \in ConnIds : prom[i].st \notin {"lookup", "start"}
          /\ \A r \in InFlight : r.pc \notin {"recLookup", "recStart"})
  /\ [][/\ \A i \in ConnIds :
             /\ prom[i].st = "lookup" => prom'[i].st \in {"lookup", "start", "failed"}
             /\ prom[i].st = "start" => prom'[i].st \in {"start", "ready", "failed"}
             /\ (prom'[i].st = "lookup" /\ prom[i].st # "lookup") => prom[i].st = "connect"
             /\ (prom'[i].st = "start" /\ prom[i].st # "start") => prom[i].st = "lookup"
        /\ \A r \in InFlight :
             /\ (r.pc = "recLookup" /\ Leaves(r)) =>
                   \/ calls' = Replace(r, [r EXCEPT !.pc = "recStart"])
                   \/ /\ calls' = Remove(r)
                      /\ done'.res = "rejGuard" /\ done'.recState = "failed"
                      /\ done'.attempts = r.attempts /\ done'.recStarts = r.recStarts
             /\ (r.pc = "recStart" /\ Leaves(r)) =>
                   \/ \E r2 \in BagToSet(calls') :
                        /\ calls' = Replace(r, r2)
                        /\ r2.recState = "done" /\ r2.pc = "awaitConn"
                        /\ r2.recStarts = r.recStarts
                   \/ /\ calls' = Remove(r)
                      /\ done'.res = "rejGuard" /\ done'.recState = "failed"
                      /\ done'.attempts = r.attempts /\ done'.recStarts = r.recStarts
        /\ \A r2 \in BagToSet(calls') :
             (r2.recState = "done" /\ CopiesIn(r2, calls') > CopiesIn(r2, calls)
                /\ r2.pc = "awaitConn" /\ r2.secondErr = NoStatus)
             => \E r \in InFlight :
                  /\ Leaves(r)
                  /\ IF engineName THEN r.pc = "recStart"
                     ELSE r.attempts = 1 /\ r.pc \in {"awaitConn", "execute", "fetch", "meta"}
       ]_vars

\* with an engine name the guard of a catch block has completed, and another
\* call's guard has failed
C13_Witness ==
  /\ engineName
  /\ done.res = "rejGuard"
  /\ \E r \in InFlight : r.recState = "done" /\ r.attempts = 2

\* C14: when the first attempt of a query()/stream() call failed with 404 and
\* the ensureEngineRunning() call of the catch block fails, whatever the
\* status, the call rejects with the guard's error after that one attempt:
\* the step makes no acquire, clears nothing and issues no connect.
C14_GuardFailure ==
  /\ [](\A r \in Observed :
          (r.recState = "failed" \/ r.res = "rejGuard") =>
             /\ r = done /\ r \notin InFlight
             /\ r.kind \in QS /\ r.res = "rejGuard" /\ r.err \in Statuses
             /\ r.firstErr = NotFound /\ r.secondErr = NoStatus
             /\ r.attempts = 1 /\ r.inval = 0 /\ r.recStarts = 1)
  /\ [][\A r \in InFlight :
          (r.pc \in {"recLookup", "recStart"} /\ Leaves(r)
             /\ BagCardinality(calls') < BagCardinality(calls)) =>
             /\ calls' = Remove(r)
             /\ done' = [r EXCEPT !.pc = "idle", !.recState = "failed",
                                  !.res = "rejGuard", !.err = done'.err]
             /\ UNCHANGED <<connection, connectCalls>>]_vars

\* the guard has failed with 401 after a first 404
C14_Witness ==
  /\ done.kind \in QS
  /\ done.res = "rejGuard"
  /\ done.firstErr = NotFound
  /\ done.err = Unauthorized

\* a record that this step put into the bag
NewIn(r2) == CopiesIn(r2, calls') > CopiesIn(r2, calls)
\* this step is the 401 branch of some call: cache cleared, second attempt started
Invalidates ==
  \E r \in InFlight, r2 \in BagToSet(calls') :
    /\ r.kind \in QS /\ r.attempts = 1 /\ Leaves(r)
    /\ NewIn(r2) /\ r2.kind = r.kind /\ r2.attempts = 2
    /\ r2.inval = 1 /\ r2.firstErr = Unauthorized
\* this step is release() resuming after destroy() has returned
ReleaseClears ==
  \E r \in InFlight :
    r.kind = "release" /\ r.pc = "destroy" /\ Leaves(r) /\ done'.res = "ok"
\* this step starts the second attempt of a call whose first attempt failed with 404
Retries404(r, r2) ==
  /\ r.kind \in QS /\ Leaves(r) /\ NewIn(r2)
  /\ r2.kind = r.kind /\ r2.attempts = 2 /\ r.attempts = 1
  /\ r2.firstErr = NotFound

\* C15 as stated: what this.connection holds is cleared or replaced only by
\* the 401 branch or by release() (a failing creation that clears its own
\* pending result, as initConnection is meant to, is not counted), and the
\* second attempt after a 404 awaits the connection that is cached.
C15_CacheFrame ==
  [][/\ (connection # 0 /\ connection' # connection) =>
          \/ Invalidates
          \/ ReleaseClears
          \/ /\ connection' = 0
             /\ prom[connection].st \in Pending /\ prom'[connection].st = "failed"
     /\ \A r \in InFlight, r2 \in BagToSet(calls') :
          (Retries404(r, r2) /\ connection # 0) =>
             connection' = connection /\ r2.p = connection]_vars

\* The retry state machine of spec 4.3, for a call that has ended, as a
\* function of the engine outcomes it met (first failure, failure of the
\* guard, second failure): steps made and result.
RetryMachine(r) ==
  LET guardFailed == r.recState = "failed"
      retried == r.firstErr \in Interpreted /\ ~guardFailed
  IN /\ guardFailed => r.firstErr = NotFound
     /\ r.attempts = IF retried THEN 2 ELSE 1
     /\ r.inval = IF r.firstErr = Unauthorized THEN 1 ELSE 0
     /\ r.recStarts = IF r.firstErr = NotFound THEN 1 ELSE 0
     /\ ~retried => r.secondErr = NoStatus
     /\ r.res = IF guardFailed THEN "rejGuard"
                ELSE IF (IF retried THEN r.secondErr ELSE r.firstErr) = NoStatus
                     THEN "ok" ELSE "rejAttempt"
     /\ r.res = "ok" => r.err = NoStatus
     /\ r.res = "rejAttempt" => r.err = IF retried THEN r.secondErr ELSE r.firstErr
     /\ r.res = "rejGuard" => r.err \in Statuses
\* the failure of an attempt of r is handled in this step: the call rejects
\* with it, or it is recorded as the first failure and the one retry starts
FailureHandled(r) ==
  \/ /\ calls' = Remove(r)
     /\ done'.kind = r.kind /\ done'.res = "rejAttempt" /\ done'.err \in Statuses
     /\ done'.attempts = r.attempts
  \/ /\ r.attempts = 1
     /\ \E r2 \in BagToSet(calls') :
          /\ calls' = Replace(r, r2)
          /\ r2.kind = r.kind /\ r2.firstErr \in Interpreted
          /\ r2.pc \in {"awaitConn", "recLookup"}

\* C16: stream() and query() implement the same retry state machine: a call
\* of either kind that has ended has made the steps and has the result that
\* RetryMachine gives for the outcomes it met; a query attempt is acquire,
\* execute, fetchResult, a stream attempt is acquire, execute, streamResult,
\* metadata, and a failure of streamResult or of the metadata is handled as
\* the failure of a fetchResult is.
C16_SameMachine ==
  /\ [](done.kind \in QS => RetryMachine(done))
  /\ [][\A r \in InFlight :
          /\ (r.kind = "query" /\ r.pc = "fetch" /\ Leaves(r)) =>
                \/ calls' = Remove(r) /\ done' = Finished(r, "ok", NoStatus)
                \/ FailureHandled(r)
          /\ (r.kind = "stream" /\ r.pc = "fetch" /\ Leaves(r)) =>
                \/ calls' = Replace(r, [r EXCEPT !.pc = "meta"])
                \/ FailureHandled(r)
          /\ (r.kind = "stream" /\ r.pc = "meta" /\ Leaves(r)) =>
                \/ calls' = Remove(r) /\ done' = Finished(r, "ok", NoStatus)
                \/ FailureHandled(r)
          /\ (r.kind \in QS /\ r.pc = "execute" /\ Leaves(r)) =>
                \/ calls' = Replace(r, [r EXCEPT !.pc = "fetch"])
                \/ FailureHandled(r)]_vars

\* a stream() call has been retried after a 401 and has then failed with 404
C16_Witness ==
  /\ done.kind = "stream"
  /\ done.firstErr = Unauthorized
  /\ done.secondErr = NotFound
  /\ done.res = "rejAttempt" /\ done.err = NotFound

\* t has the wrapped form nullable(X) or array(X), X not empty
Wrapped(t) ==
  /\ Len(t) >= 4
  /\ t[1] \in {"nullable", "array"} /\ t[2] = "(" /\ t[Len(t)] = ")"

\* C17: toGenericType(t) returns the table value (bigint) for the key long;
\* for a wrapped t the inner type goes through the table only when t itself
\* is a key of the table, and otherwise (nullable(long), array(long) among
\* them) the result is the base driver's mapping of the whole t.
C17_TypeMapping ==
  tOut.called =>
    /\ tIn = <<"long">> => tOut.type = [by |-> "table", of |-> <<"bigint">>]
    /\ Wrapped(tIn) =>
          /\ tOut.type.by # "base" => tIn \in DOMAIN FireboltTypeToGeneric
          /\ tIn \notin DOMAIN FireboltTypeToGeneric =>
                tOut.type = [by |-> "base", of |-> tIn]
    /\ tIn \in {<<"nullable", "(", "long", ")">>, <<"array", "(", "long", ")">>} =>
          tOut.type = [by |-> "base", of |-> tIn]

\* nullable(long) has been mapped, by the base driver's mapping
C17_Witness ==
  /\ tOut.called
  /\ tIn = <<"nullable", "(", "long", ")">>
  /\ tOut.type.by = "base"

\* C18: every top-level call eventually resolves or rejects: in a behaviour
\* whose callers start finitely many calls, in any interleaving, there comes
\* a point from which no call is in flight (or the connect() calls of one
\* behaviour are used up, after which a call that needs a creation cannot go
\* on in the model).
C18_Termination ==
  (<>[][~Arrival]_vars) => <>[](calls = EmptyBag \/ connectCalls = MaxConn)

\* a call that awaited a creation which failed, and was retried on a second
\* creation, has ended, and no call is left in flight
C18_Witness ==
  /\ calls = EmptyBag
  /\ done.kind \in QS
  /\ done.attempts = 2 /\ done.new2
  /\ done.res # "none"
  /\ connectCalls < MaxConn

\* C19: a creation that fails clears the cache only of its own pending
\* result: the failure of creation i never changes a cache that holds a
\* different connection.
C19_OwnFailureOnly ==
  [][\A i \in ConnIds :
       (prom[i].st \in Pending /\ prom'[i].st = "failed" /\ connection \notin {0, i}) =>
          connection' = connection]_vars

\* release() has called destroy() on the connection of creation i
DestroyCalled(i) == prom[i].st \in {"destroyed", "released"}

\* C20: no operation is submitted on a destroyed connection: no call takes
\* from the cache a connection on which release() has called destroy(), and
\* no call submits execute() or testConnection() on such a connection.
C20_NoUseAfterDestroy ==
  [][/\ \A r2 \in BagToSet(calls') :
          (NewIn(r2) /\ r2.pc = "awaitConn") => ~DestroyCalled(r2.p)
     /\ \A r \in InFlight :
          (/\ r.pc = "awaitConn"
           /\ calls' = Replace(r, [r EXCEPT !.p = 0,
                                            !.pc = IF r.kind = "test" THEN "validate"
                                                   ELSE "execute"]))
            => ~DestroyCalled(r.p)]_vars

\* C21: release() removes from the cache only the connection it destroyed:
\* the step in which a release() ends after its destroy() leaves the cache as
\* it is when the cache holds a connection other than the one this release()
\* awaited and destroyed.
C21_ReleaseOwnOnly ==
  [][\A r \in InFlight :
       (r.kind = "release" /\ r.pc = "destroy" /\ Leaves(r)
          /\ connection \notin {0, r.p}) =>
             connection' = connection]_vars

====
